---- MODULE Spec2Model ----
(***************************************************************************)
(* Model of src/PCM_OD.py: the ParacetamolOverdoseDecision engine and the  *)
(* Streamlit assessment flow that drives it.                               *)
(*                                                                         *)
(* Number representation.  The form fields declared with format "%.1f"     *)
(* (weight, time_hours, paracetamol_level, inr) are modelled in TENTHS of  *)
(* their unit, as integers: weight 705 is 70.5 kg, inr 13 is 1.3.  dose_mg *)
(* and alt are whole numbers, as in the form.  Concentrations returned by  *)
(* the nomogram are in tenths of mg/L.  dose_per_kg is the exact fraction  *)
(* [num, den] of mg over kg.  On the grids used here the float arithmetic  *)
(* of the source and this exact arithmetic give the same comparisons.      *)
(*                                                                         *)
(* Python None is the empty tuple, a present value v is <<v>>; a Python    *)
(* dict is a function on its keys, {} being the empty function.            *)
(***************************************************************************)
EXTENDS Integers, Sequences, FiniteSets, TLC

\* the six keys of st.session_state; error is the validation message the
\* intake page shows; calls lists the calls of the engine and of the reset
\* callback made while handling the last interaction
VARIABLES step, patient_data, initial_decision, admission_bloods,
          clinical_signs, reassessment_bloods, error, calls

vars == <<step, patient_data, initial_decision, admission_bloods,
          clinical_signs, reassessment_bloods, error, calls>>

session == <<step, patient_data, initial_decision, admission_bloods,
             clinical_signs, reassessment_bloods>>

None == <<>>

EmptyDict == <<>>

Get(d, k) == IF k \in DOMAIN d THEN d[k] ELSE FALSE

(***************************************************************************)
(* ParameterSet: ParacetamolOverdoseDecision.__init__                      *)
(***************************************************************************)
significant_dose_threshold == 75

high_risk_dose_threshold == 150

blood_test_wait_time_hours == 4

late_presentation_threshold == 24

paracetamol_detection_threshold == 5

\* 1.3, in tenths
inr_threshold == 13

alt_upper_limit_normal == 33

nac_cont_paracetamol_level == 10

nac_cont_alt_doubled_from_admission_factor == 2

nac_cont_alt_twice_uln_factor == 2

licensed_dose_24hr == 4000

nomogram_data_swapped ==
  [h \in 4..15 |-> <<100, 82, 70, 60, 50, 40, 35, 30, 25, 18, 20, 15>>[h - 3]]

\* mg/L at each whole hour 4..15
nomogram_data ==
  [h \in 4..15 |-> <<100, 82, 70, 60, 50, 40, 35, 30, 25, 20, 18, 15>>[h - 3]]

Band(lo, hi, label, d1, v1, r1, d2, v2, r2) ==
  [min_weight |-> lo, max_weight |-> hi,
   dosing |-> [weight_range |-> label, dose1_mg |-> d1, vol1_ml |-> v1,
               rate1_mlhr |-> r1, dose2_mg |-> d2, vol2_ml |-> v2,
               rate2_mlhr |-> r2]]

\* the dict in insertion order; band limits in kg
nac_dosing ==
  << Band(40, 49, "40-49 kg", 4600, 23, 112, 9000, 45, 105),
     Band(50, 59, "50-59 kg", 5600, 28, 114, 11000, 55, 106),
     Band(60, 69, "60-69 kg", 6600, 33, 117, 13000, 65, 107),
     Band(70, 79, "70-79 kg", 7600, 38, 119, 15000, 75, 108),
     Band(80, 89, "80-89 kg", 8600, 43, 122, 17000, 85, 109),
     Band(90, 99, "90-99 kg", 9600, 48, 124, 19000, 95, 110),
     Band(100, 109, "100-109 kg", 10600, 53, 127, 21000, 105, 111),
     Band(110, 999, ">109 kg", 11000, 55, 128, 22000, 110, 111) >>

(***************************************************************************)
(* calculate_dose_per_kg: dose_mg / weight, or 0 when weight <= 0.         *)
(* weight is in tenths of kg, so mg/kg = (dose_mg * 10) / weight.          *)
(***************************************************************************)
calculate_dose_per_kg(dose_mg, weight) ==
  IF weight > 0 THEN [num |-> dose_mg * 10, den |-> weight]
  ELSE [num |-> 0, den |-> 1]

\* comparisons of a fraction (den > 0) with a whole number
FracGeq(f, n) == f.num >= n * f.den

FracLt(f, n) == f.num < n * f.den

(***************************************************************************)
(* round(x, 1) on a non-negative value given in hundredths; the result is  *)
(* in tenths.  Python rounds to the nearest, ties to even.                 *)
(***************************************************************************)
Round1(x100) ==
  LET q == x100 \div 10
      r == x100 % 10
  IN  IF r < 5 THEN q
      ELSE IF r > 5 THEN q + 1
      ELSE IF q % 2 = 0 THEN q ELSE q + 1

(***************************************************************************)
(* get_paracetamol_treatment_threshold(hours): hours in tenths, result in  *)
(* tenths of mg/L, None outside 4..15 h.                                   *)
(***************************************************************************)
get_paracetamol_treatment_threshold_open(hours) ==
  IF hours <= 40 \/ hours > 150 THEN None
  ELSE IF hours % 10 = 0 /\ (hours \div 10) \in DOMAIN nomogram_data
       THEN << nomogram_data[hours \div 10] * 10 >>
  ELSE LET hour_floor == hours \div 10
           hour_ceil == hour_floor + 1
       IN  IF hour_floor \in DOMAIN nomogram_data /\ hour_ceil \in DOMAIN nomogram_data
           THEN LET threshold_floor == nomogram_data[hour_floor]
                    threshold_ceil == nomogram_data[hour_ceil]
                    fraction10 == hours - 10 * hour_floor
                IN  << Round1(100 * threshold_floor
                              + 10 * fraction10 * (threshold_ceil - threshold_floor)) >>
           ELSE None

get_paracetamol_treatment_threshold(hours) ==
  IF hours < 40 \/ hours > 150 THEN None
  ELSE IF hours % 10 = 0 /\ (hours \div 10) \in DOMAIN nomogram_data
       THEN << nomogram_data[hours \div 10] * 10 >>
  ELSE LET hour_floor == hours \div 10
           hour_ceil == hour_floor + 1
       IN  IF hour_floor \in DOMAIN nomogram_data /\ hour_ceil \in DOMAIN nomogram_data
           THEN LET threshold_floor == nomogram_data[hour_floor]
                    threshold_ceil == nomogram_data[hour_ceil]
                    fraction10 == hours - 10 * hour_floor
                IN  << Round1(100 * threshold_floor
                              + 10 * fraction10 * (threshold_ceil - threshold_floor)) >>
           ELSE None

(***************************************************************************)
(* get_nac_dosing(weight): first band, in dict order, whose closed         *)
(* interval holds the weight; the last band when there is none.            *)
(* weight in tenths of kg.                                                 *)
(***************************************************************************)
RECURSIVE FirstBand(_, _)
FirstBand(weight, i) ==
  IF i > Len(nac_dosing) THEN nac_dosing[Len(nac_dosing)].dosing
  ELSE IF nac_dosing[i].min_weight * 10 <= weight /\ weight <= nac_dosing[i].max_weight * 10
       THEN nac_dosing[i].dosing
       ELSE FirstBand(weight, i + 1)

RECURSIVE FirstBandHalfOpen(_, _)
FirstBandHalfOpen(weight, i) ==
  IF i > Len(nac_dosing) THEN nac_dosing[Len(nac_dosing)].dosing
  ELSE IF nac_dosing[i].min_weight * 10 <= weight /\ weight < (nac_dosing[i].max_weight + 1) * 10
       THEN nac_dosing[i].dosing
       ELSE FirstBandHalfOpen(weight, i + 1)

get_nac_dosing_halfopen(weight) == FirstBandHalfOpen(weight, 1)

get_nac_dosing(weight) == FirstBand(weight, 1)

(***************************************************************************)
(* is_significant_dose_self_harm: an unreliable dose is always significant *)
(***************************************************************************)
is_significant_dose_self_harm_ignores_reliability(pd) ==
  FracGeq(calculate_dose_per_kg(pd.dose_mg, pd.weight), significant_dose_threshold)

is_significant_dose_self_harm(pd) ==
  IF ~pd.is_dose_reliable THEN TRUE
  ELSE FracGeq(calculate_dose_per_kg(pd.dose_mg, pd.weight), significant_dose_threshold)

(***************************************************************************)
(* _handle_self_harm_overdose.  time_hours in tenths of an hour.           *)
(***************************************************************************)
handle_self_harm_overdose(pd, dose_per_kg) ==
  LET time_hours == pd.time_hours
  IN
  IF ~is_significant_dose_self_harm(pd)
  THEN [recommendation |-> "DELAY_BLOODS_SELF_HARM",
        reason |-> "Self-harm context - despite dose being below significant threshold, bloods required at 4 hours post ingestion.",
        blood_tests_needed |-> TRUE,
        blood_delay_hours |-> blood_test_wait_time_hours]
  ELSE IF time_hours > late_presentation_threshold * 10
  THEN [recommendation |-> "LATE_PRESENTATION",
        reason |-> "Late presentation (>24 hours). Take bloods immediately and assess for clinical signs.",
        blood_tests_needed |-> TRUE,
        clinical_signs_needed |-> TRUE]
  ELSE IF pd.is_staggered
  THEN [recommendation |-> "START_NAC_DELAY_BLOODS",
        reason |-> "Self-harm: Staggered overdose or timing unclear - start NAC immediately, take bloods at 4 hours.",
        blood_tests_needed |-> TRUE,
        blood_delay_hours |-> 4]
  ELSE IF FracGeq(dose_per_kg, high_risk_dose_threshold) /\ time_hours >= 70
  THEN [recommendation |-> "START_NAC_DELAY_BLOODS",
        reason |-> "Self-harm: Acute overdose >= 150 mg/kg and >=7 hours post ingestion - start NAC immediately.",
        blood_tests_needed |-> TRUE,
        blood_delay_hours |-> 4]
  ELSE IF time_hours < blood_test_wait_time_hours * 10
  THEN [recommendation |-> "DELAY_BLOODS_SELF_HARM",
        reason |-> "Self-harm: <4 hours post ingestion - delay bloods until 4 hours.",
        blood_tests_needed |-> TRUE,
        blood_delay_hours |-> blood_test_wait_time_hours]
  ELSE IF time_hours >= blood_test_wait_time_hours * 10
  THEN [recommendation |-> "TAKE_BLOODS_DECIDE",
        reason |-> "Self-harm: >=4 hours post ingestion - take bloods to determine NAC need.",
        blood_tests_needed |-> TRUE]
  ELSE [recommendation |-> "REVIEW_CASE",
        reason |-> "Unhandled self-harm scenario."]

(***************************************************************************)
(* _handle_therapeutic_excess                                              *)
(***************************************************************************)
handle_therapeutic_excess_strict(pd, dose_per_kg) ==
  IF pd.is_symptomatic
  THEN [recommendation |-> "REFER_HOSPITAL_SYMPTOMATIC",
        reason |-> "Patient is symptomatic. Refer to hospital for assessment. Consider NAC if clinical features of hepatic injury.",
        blood_tests_needed |-> TRUE]
  ELSE IF pd.dose_mg > licensed_dose_24hr /\ dose_per_kg.num > significant_dose_threshold * dose_per_kg.den
  THEN [recommendation |-> "REFER_HOSPITAL_HIGH_DOSE_EXCESS",
        reason |-> "Ingested > licensed dose AND >= 75 mg/kg in 24 hours. Check bloods at least 4 hours after last ingestion.",
        blood_tests_needed |-> TRUE,
        blood_delay_hours |-> 4]
  ELSE IF pd.dose_mg > licensed_dose_24hr /\ FracLt(dose_per_kg, significant_dose_threshold)
  THEN [recommendation |-> "CONSIDER_BLOODS_LOW_RISK_EXCESS",
        reason |-> "Ingested > licensed dose but < 75 mg/kg/24 hours. Risk is small, but blood tests may be considered.",
        blood_tests_needed |-> TRUE]
  ELSE IF pd.dose_mg <= licensed_dose_24hr /\ FracLt(dose_per_kg, significant_dose_threshold)
  THEN [recommendation |-> "NO_ACTION_THERAPEUTIC",
        reason |-> "Dose consistently less than licensed dose and < 75 mg/kg. No further assessment needed.",
        blood_tests_needed |-> FALSE]
  ELSE [recommendation |-> "REVIEW_CASE",
        reason |-> "Unhandled therapeutic excess scenario."]

handle_therapeutic_excess(pd, dose_per_kg) ==
  IF pd.is_symptomatic
  THEN [recommendation |-> "REFER_HOSPITAL_SYMPTOMATIC",
        reason |-> "Patient is symptomatic. Refer to hospital for assessment. Consider NAC if clinical features of hepatic injury.",
        blood_tests_needed |-> TRUE]
  ELSE IF pd.dose_mg > licensed_dose_24hr /\ FracGeq(dose_per_kg, significant_dose_threshold)
  THEN [recommendation |-> "REFER_HOSPITAL_HIGH_DOSE_EXCESS",
        reason |-> "Ingested > licensed dose AND >= 75 mg/kg in 24 hours. Check bloods at least 4 hours after last ingestion.",
        blood_tests_needed |-> TRUE,
        blood_delay_hours |-> 4]
  ELSE IF pd.dose_mg > licensed_dose_24hr /\ FracLt(dose_per_kg, significant_dose_threshold)
  THEN [recommendation |-> "CONSIDER_BLOODS_LOW_RISK_EXCESS",
        reason |-> "Ingested > licensed dose but < 75 mg/kg/24 hours. Risk is small, but blood tests may be considered.",
        blood_tests_needed |-> TRUE]
  ELSE IF pd.dose_mg <= licensed_dose_24hr /\ FracLt(dose_per_kg, significant_dose_threshold)
  THEN [recommendation |-> "NO_ACTION_THERAPEUTIC",
        reason |-> "Dose consistently less than licensed dose and < 75 mg/kg. No further assessment needed.",
        blood_tests_needed |-> FALSE]
  ELSE [recommendation |-> "REVIEW_CASE",
        reason |-> "Unhandled therapeutic excess scenario."]

(***************************************************************************)
(* make_initial_decision: caches dose_per_kg on the record it is given     *)
(* (WithDosePerKg is the record after the call) and returns the Decision.  *)
(***************************************************************************)
WithDosePerKg(pd) ==
  [k \in DOMAIN pd \cup {"dose_per_kg"} |->
     IF k = "dose_per_kg" THEN calculate_dose_per_kg(pd.dose_mg, pd.weight)
     ELSE pd[k]]

make_initial_decision_swapped(pd) ==
  LET dose_per_kg == calculate_dose_per_kg(pd.dose_mg, pd.weight)
  IN  IF pd.is_self_harm THEN handle_therapeutic_excess(pd, dose_per_kg)
      ELSE handle_self_harm_overdose(pd, dose_per_kg)

make_initial_decision(pd) ==
  LET dose_per_kg == calculate_dose_per_kg(pd.dose_mg, pd.weight)
  IN  IF pd.is_self_harm THEN handle_self_harm_overdose(pd, dose_per_kg)
      ELSE handle_therapeutic_excess(pd, dose_per_kg)

(***************************************************************************)
(* assess_nac_indication -> <<indicated, reason>>.  The reason that embeds *)
(* the measured level and the treatment line carries both, in tenths of    *)
(* mg/L, as further components.                                            *)
(***************************************************************************)
ClinicalSignsPresent(signs) ==
  Get(signs, "has_jaundice") \/ Get(signs, "has_liver_tenderness")

AbnormalLiverFunctionBoth(inr, alt) ==
  inr > inr_threshold /\ alt > alt_upper_limit_normal

AbnormalLiverFunction(inr, alt) ==
  inr > inr_threshold \/ alt > alt_upper_limit_normal

assess_nac_indication(pd, blood_results, signs) ==
  LET time_hours == pd.time_hours
      paracetamol_level == blood_results.paracetamol_level
      inr == blood_results.inr
      alt == blood_results.alt
      treatment_threshold == get_paracetamol_treatment_threshold(time_hours)
  IN
  IF ClinicalSignsPresent(signs)
  THEN <<TRUE, "NAC is indicated due to clinical signs of liver injury (jaundice or tenderness).">>
  ELSE IF AbnormalLiverFunction(inr, alt)
  THEN <<TRUE, "NAC is indicated due to abnormal liver function (INR > 1.3 or ALT > 33 IU/L).">>
  ELSE IF pd.is_self_harm /\ pd.is_staggered
          /\ paracetamol_level > paracetamol_detection_threshold * 10
  THEN <<TRUE, "NAC is indicated for staggered ingestion with detectable paracetamol (>5 mg/L).">>
  ELSE IF pd.is_self_harm /\ ~pd.is_staggered /\ 40 <= time_hours /\ time_hours <= 150
          /\ treatment_threshold # None /\ treatment_threshold[1] # 0
          /\ paracetamol_level >= treatment_threshold[1]
  THEN <<TRUE, "NAC is indicated as paracetamol level ({} mg/L) is on or above the treatment line ({} mg/L).",
         paracetamol_level, treatment_threshold[1]>>
  ELSE IF pd.is_self_harm /\ ~pd.is_staggered /\ ~(40 <= time_hours /\ time_hours <= 150)
          /\ time_hours > 150
          /\ paracetamol_level > paracetamol_detection_threshold * 10
  THEN <<TRUE, "NAC is indicated for ingestion >15 hours ago with detectable paracetamol (>5 mg/L).">>
  ELSE IF ~pd.is_self_harm /\ paracetamol_level >= nac_cont_paracetamol_level * 10
  THEN <<TRUE, "NAC is indicated for therapeutic excess with paracetamol level >= 10 mg/L.">>
  ELSE <<FALSE, "No indication for NAC based on current blood results and clinical context.">>

(***************************************************************************)
(* assess_nac_continuation -> <<continue, message, reasons>>: reasons is   *)
(* the list the message joins with "; ".  admission is None or <<panel>>;  *)
(* "not admission_bloods" holds for None and for an empty dict.            *)
(***************************************************************************)
ContinuationReasonsInrGeq(reassessment, admission) ==
  (IF reassessment.paracetamol_level >= nac_cont_paracetamol_level * 10
   THEN <<"Paracetamol level is >= 10 mg/L">> ELSE <<>>)
  \o
  (IF reassessment.alt >= admission.alt * nac_cont_alt_doubled_from_admission_factor
   THEN <<"ALT has doubled (or more) from the admission value">> ELSE <<>>)
  \o
  (IF reassessment.alt > alt_upper_limit_normal * nac_cont_alt_twice_uln_factor
   THEN <<"ALT is more than twice the upper limit of normal (> 66 IU/L)">> ELSE <<>>)
  \o
  (IF reassessment.inr >= admission.inr
   THEN <<"INR has increased from the admission value">> ELSE <<>>)

ContinuationReasons(reassessment, admission) ==
  (IF reassessment.paracetamol_level >= nac_cont_paracetamol_level * 10
   THEN <<"Paracetamol level is >= 10 mg/L">> ELSE <<>>)
  \o
  (IF reassessment.alt >= admission.alt * nac_cont_alt_doubled_from_admission_factor
   THEN <<"ALT has doubled (or more) from the admission value">> ELSE <<>>)
  \o
  (IF reassessment.alt > alt_upper_limit_normal * nac_cont_alt_twice_uln_factor
   THEN <<"ALT is more than twice the upper limit of normal (> 66 IU/L)">> ELSE <<>>)
  \o
  (IF reassessment.inr > admission.inr
   THEN <<"INR has increased from the admission value">> ELSE <<>>)

assess_nac_continuation_default_baseline(reassessment, admission) ==
  LET baseline == IF admission = None \/ DOMAIN admission[1] = {}
                  THEN [paracetamol_level |-> 0, inr |-> 0, alt |-> 0]
                  ELSE admission[1]
      reasons == ContinuationReasons(reassessment, baseline)
  IN  IF reasons # <<>>
      THEN <<TRUE, "Continue NAC. Reason(s): ", reasons>>
      ELSE <<FALSE, "Criteria for NAC continuation not met. Stop NAC and recheck bloods in 4-6 hours.", <<>> >>

assess_nac_continuation(reassessment, admission) ==
  IF admission = None \/ DOMAIN admission[1] = {}
  THEN <<FALSE, "Error: Admission blood results not available for comparison.", <<>> >>
  ELSE LET reasons == ContinuationReasons(reassessment, admission[1])
       IN  IF reasons # <<>>
           THEN <<TRUE, "Continue NAC. Reason(s): ", reasons>>
           ELSE <<FALSE, "Criteria for NAC continuation not met. Stop NAC and recheck bloods in 4-6 hours.", <<>> >>

(***************************************************************************)
(* Bounds of the model                                                     *)
(***************************************************************************)
\* ages offered to the intake form: 17..MaxAge
MaxAge == 18

\* flow weights are 0, 30, 60, ... kg: 300 * (0..MaxWeightIdx) tenths
MaxWeightIdx == 3

\* flow doses are 0, 2250, 4500, ... mg: 2250 * (0..MaxDoseIdx)
MaxDoseIdx == 2

\* hours given to the nomogram, in tenths: 0..MaxHoursTenths
MaxHoursTenths == 170

\* weights given to the dosing table, in tenths of kg: 0..MaxDosingWeightTenths
MaxDosingWeightTenths == 1200

\* ALT values of the continuation check: 0..MaxAlt
MaxAlt == 70

\* triage weights are 0, 10, 20, ... kg and doses 0, 750, 1500, ... mg
MaxTriageIdx == 7

Ages == 17..MaxAge

FlowWeights == {300 * k : k \in 0..MaxWeightIdx}

FlowDoses == {2250 * k : k \in 0..MaxDoseIdx}

\* 3 h, 4.5 h, 8 h, 20 h, 25 h
FlowTimes == {30, 45, 80, 200, 250}

\* paracetamol levels entered in the flow; 91.0 mg/L lies on the treatment
\* line at 4.5 h
FlowLevels == {0, 55, 100, 910}

FlowInrs == {13, 14}

FlowAlts == {20, 34}

FlowPanels ==
  {[paracetamol_level |-> l, inr |-> i, alt |-> a, creatinine_current |-> 80] :
     l \in FlowLevels, i \in FlowInrs, a \in FlowAlts}
  \ {[paracetamol_level |-> l, inr |-> 14, alt |-> 34, creatinine_current |-> 80] :
       l \in FlowLevels}

ReassessmentPanels ==
  {[paracetamol_level |-> l, inr |-> i, alt |-> a, creatinine_current |-> 80] :
     l \in {0, 100}, i \in {13, 14}, a \in {30, 67}}

(***************************************************************************)
(* Session state of the Streamlit application                              *)
(***************************************************************************)
SessionInit ==
  /\ step = "patient_data"
  /\ patient_data = EmptyDict
  /\ initial_decision = EmptyDict
  /\ admission_bloods = None
  /\ clinical_signs = EmptyDict
  /\ reassessment_bloods = None

Init ==
  /\ SessionInit
  /\ error = ""
  /\ calls = <<>>

\* 'START_NAC' in decision['recommendation']: of the recommendations the
\* engine returns, only START_NAC_DELAY_BLOODS contains it
StartNacIn(recommendation) == recommendation = "START_NAC_DELAY_BLOODS"

\* display_nac_protocol(weight, bag_type): looks the dosing up and shows it
display_nac_protocol(weight, bag_type) ==
  <<[fn |-> "get_nac_dosing", weight |-> weight, bag_type |-> bag_type,
     ret |-> get_nac_dosing(weight)]>>

reset_app_keeps_signs ==
  /\ step \in {"initial_recommendation", "blood_results", "final_recommendation",
               "reassessment", "complete"}
  /\ step' = "patient_data"
  /\ patient_data' = EmptyDict
  /\ initial_decision' = EmptyDict
  /\ admission_bloods' = None
  /\ clinical_signs' = clinical_signs
  /\ reassessment_bloods' = None
  /\ error' = ""
  /\ calls' = <<[fn |-> "reset_app", ret |-> None]>>

reset_app_keeps_admission ==
  /\ step \in {"initial_recommendation", "blood_results", "final_recommendation",
               "reassessment", "complete"}
  /\ step' = "patient_data"
  /\ patient_data' = EmptyDict
  /\ initial_decision' = EmptyDict
  /\ admission_bloods' = admission_bloods
  /\ clinical_signs' = EmptyDict
  /\ reassessment_bloods' = None
  /\ error' = ""
  /\ calls' = <<[fn |-> "reset_app", ret |-> None]>>

\* reset_app, the on_click callback of the Start Over buttons, which the
\* pages of every step but the first offer; the rerun renders Step 1
reset_app ==
  /\ step \in {"initial_recommendation", "blood_results", "final_recommendation",
               "reassessment", "complete"}
  /\ step' = "patient_data"
  /\ patient_data' = EmptyDict
  /\ initial_decision' = EmptyDict
  /\ admission_bloods' = None
  /\ clinical_signs' = EmptyDict
  /\ reassessment_bloods' = None
  /\ error' = ""
  /\ calls' = <<[fn |-> "reset_app", ret |-> None]>>

\* Step 1: the patient form is submitted with an age below 18
SubmitIntakeUnderAge(age) ==
  /\ step = "patient_data"
  /\ age < 18
  /\ error' = "This tool is for patients aged 18 years and above only."
  /\ calls' = <<>>
  /\ UNCHANGED session

\* Step 1: the patient form is submitted with a non-positive weight or dose
SubmitIntakeNonPositive(age, weight, dose_mg) ==
  /\ step = "patient_data"
  /\ ~(age < 18)
  /\ weight <= 0 \/ dose_mg <= 0
  /\ error' = "Weight and Dose must be positive values."
  /\ calls' = <<>>
  /\ UNCHANGED session

SubmitIntakeAcceptsZero(age, weight, dose_mg, time_hours, is_self_harm, is_staggered, is_dose_reliable, is_symptomatic) ==
  LET pd == [age |-> age, weight |-> weight, dose_mg |-> dose_mg,
             time_hours |-> time_hours, is_self_harm |-> is_self_harm,
             is_staggered |-> is_staggered, is_dose_reliable |-> is_dose_reliable,
             is_symptomatic |-> is_symptomatic]
      decision == make_initial_decision(pd)
  IN
  /\ step = "patient_data"
  /\ IF is_self_harm THEN ~is_symptomatic ELSE ~is_staggered /\ is_dose_reliable
  /\ ~(age < 18)
  /\ ~(weight < 0 \/ dose_mg < 0)
  /\ patient_data' = WithDosePerKg(pd)
  /\ initial_decision' = decision
  /\ step' = "initial_recommendation"
  /\ error' = ""
  /\ calls' = <<[fn |-> "make_initial_decision", ret |-> decision]>>
              \o (IF StartNacIn(decision.recommendation)
                  THEN display_nac_protocol(weight, "initial") ELSE <<>>)
  /\ UNCHANGED <<admission_bloods, clinical_signs, reassessment_bloods>>

\* Step 1: a valid form is submitted; the rerun renders Step 2
SubmitIntake(age, weight, dose_mg, time_hours, is_self_harm, is_staggered, is_dose_reliable, is_symptomatic) ==
  LET pd == [age |-> age, weight |-> weight, dose_mg |-> dose_mg,
             time_hours |-> time_hours, is_self_harm |-> is_self_harm,
             is_staggered |-> is_staggered, is_dose_reliable |-> is_dose_reliable,
             is_symptomatic |-> is_symptomatic]
      decision == make_initial_decision(pd)
  IN
  /\ step = "patient_data"
  /\ IF is_self_harm THEN ~is_symptomatic ELSE ~is_staggered /\ is_dose_reliable
  /\ ~(age < 18)
  /\ ~(weight <= 0 \/ dose_mg <= 0)
  /\ patient_data' = WithDosePerKg(pd)
  /\ initial_decision' = decision
  /\ step' = "initial_recommendation"
  /\ error' = ""
  /\ calls' = <<[fn |-> "make_initial_decision", ret |-> decision]>>
              \o (IF StartNacIn(decision.recommendation)
                  THEN display_nac_protocol(weight, "initial") ELSE <<>>)
  /\ UNCHANGED <<admission_bloods, clinical_signs, reassessment_bloods>>

ProceedToBloodsUnguarded ==
  /\ step = "initial_recommendation"
  /\ step' = "blood_results"
  /\ clinical_signs' =
       IF Get(initial_decision, "clinical_signs_needed")
       THEN [has_jaundice |-> FALSE, has_liver_tenderness |-> FALSE]
       ELSE clinical_signs
  /\ calls' = <<>>
  /\ UNCHANGED <<patient_data, initial_decision, admission_bloods,
                 reassessment_bloods, error>>

\* Step 2: 'Proceed to Enter Blood Results', offered only when the decision
\* has blood_tests_needed; the rerun renders the blood form, which stores the
\* clinical-signs checkboxes (unticked) on the late-presentation branch
ProceedToBloods ==
  /\ step = "initial_recommendation"
  /\ Get(initial_decision, "blood_tests_needed")
  /\ step' = "blood_results"
  /\ clinical_signs' =
       IF Get(initial_decision, "clinical_signs_needed")
       THEN [has_jaundice |-> FALSE, has_liver_tenderness |-> FALSE]
       ELSE clinical_signs
  /\ calls' = <<>>
  /\ UNCHANGED <<patient_data, initial_decision, admission_bloods,
                 reassessment_bloods, error>>

\* Step 3: the blood form is submitted; the rerun renders Step 4, which
\* evaluates assess_nac_indication on the stored facts
SubmitBloods(panel, has_jaundice, has_liver_tenderness) ==
  LET signs == IF Get(initial_decision, "clinical_signs_needed")
               THEN [has_jaundice |-> has_jaundice,
                     has_liver_tenderness |-> has_liver_tenderness]
               ELSE clinical_signs
      nac_already_started == StartNacIn(initial_decision.recommendation)
      result == assess_nac_indication(patient_data, panel, signs)
  IN
  /\ step = "blood_results"
  /\ Get(initial_decision, "clinical_signs_needed")
       \/ (~has_jaundice /\ ~has_liver_tenderness)
  /\ clinical_signs' = signs
  /\ admission_bloods' = <<panel>>
  /\ step' = "final_recommendation"
  /\ calls' = <<[fn |-> "assess_nac_indication", ret |-> result]>>
              \o (IF result[1] /\ ~nac_already_started
                  THEN display_nac_protocol(patient_data.weight, "initial")
                  ELSE <<>>)
  /\ UNCHANGED <<patient_data, initial_decision, reassessment_bloods, error>>

ProceedToReassessmentSkips ==
  /\ step = "final_recommendation"
  /\ assess_nac_indication(patient_data, admission_bloods[1], clinical_signs)[1]
  /\ step' = "complete"
  /\ calls' = <<>>
  /\ UNCHANGED <<patient_data, initial_decision, admission_bloods,
                 clinical_signs, reassessment_bloods, error>>

ProceedToReassessmentUnguarded ==
  /\ step = "final_recommendation"
  /\ step' = "reassessment"
  /\ calls' = <<>>
  /\ UNCHANGED <<patient_data, initial_decision, admission_bloods,
                 clinical_signs, reassessment_bloods, error>>

\* Step 4: 'Proceed to 12-Hour Re-assessment', offered only when
\* assess_nac_indication on the stored facts is positive
ProceedToReassessment ==
  /\ step = "final_recommendation"
  /\ assess_nac_indication(patient_data, admission_bloods[1], clinical_signs)[1]
  /\ step' = "reassessment"
  /\ calls' = <<>>
  /\ UNCHANGED <<patient_data, initial_decision, admission_bloods,
                 clinical_signs, reassessment_bloods, error>>

SubmitReassessmentOverwritesAdmission(panel) ==
  LET result == assess_nac_continuation(panel, admission_bloods)
  IN
  /\ step = "reassessment"
  /\ step' = "complete"
  /\ calls' = <<[fn |-> "assess_nac_continuation", reassessment_bloods |-> panel,
                 ret |-> result]>>
              \o (IF result[1]
                  THEN display_nac_protocol(patient_data.weight, "continuation")
                  ELSE <<>>)
  /\ admission_bloods' = <<panel>>
  /\ UNCHANGED <<patient_data, initial_decision, clinical_signs,
                 reassessment_bloods, error>>

SubmitReassessmentWrongBaseline(panel) ==
  LET result == assess_nac_continuation(panel, reassessment_bloods)
  IN
  /\ step = "reassessment"
  /\ step' = "complete"
  /\ calls' = <<[fn |-> "assess_nac_continuation", reassessment_bloods |-> panel,
                 ret |-> result]>>
              \o (IF result[1]
                  THEN display_nac_protocol(patient_data.weight, "continuation")
                  ELSE <<>>)
  /\ UNCHANGED <<patient_data, initial_decision, admission_bloods,
                 clinical_signs, reassessment_bloods, error>>

\* Step 5: the re-assessment form is submitted; the panel is a local of the
\* script, the session keeps only the step; the rerun renders 'complete'
SubmitReassessment(panel) ==
  LET result == assess_nac_continuation(panel, admission_bloods)
  IN
  /\ step = "reassessment"
  /\ step' = "complete"
  /\ calls' = <<[fn |-> "assess_nac_continuation", reassessment_bloods |-> panel,
                 ret |-> result]>>
              \o (IF result[1]
                  THEN display_nac_protocol(patient_data.weight, "continuation")
                  ELSE <<>>)
  /\ UNCHANGED <<patient_data, initial_decision, admission_bloods,
                 clinical_signs, reassessment_bloods, error>>

\* the step is tested before the form inputs are enumerated
Next ==
  \/ step = "patient_data" /\ \E age \in Ages : SubmitIntakeUnderAge(age)
  \/ step = "patient_data"
       /\ \E age \in Ages, weight \in FlowWeights, dose_mg \in FlowDoses :
            SubmitIntakeNonPositive(age, weight, dose_mg)
  \/ step = "patient_data"
       /\ \E age \in Ages, weight \in FlowWeights, dose_mg \in FlowDoses,
             time_hours \in FlowTimes, is_self_harm \in BOOLEAN, is_staggered \in BOOLEAN,
             is_dose_reliable \in BOOLEAN, is_symptomatic \in BOOLEAN :
            SubmitIntake(age, weight, dose_mg, time_hours, is_self_harm, is_staggered,
                         is_dose_reliable, is_symptomatic)
  \/ ProceedToBloods
  \/ step = "blood_results"
       /\ \E panel \in FlowPanels, has_jaundice \in BOOLEAN, has_liver_tenderness \in BOOLEAN :
            SubmitBloods(panel, has_jaundice, has_liver_tenderness)
  \/ ProceedToReassessment
  \/ step = "reassessment" /\ \E panel \in ReassessmentPanels : SubmitReassessment(panel)
  \/ reset_app

Spec == Init /\ [][Next]_vars

(***************************************************************************)
(* The engine's functions on their own: the initial state holds one        *)
(* pending call with its arguments, the action evaluates it.               *)
(***************************************************************************)
Pending(c) == "ret" \notin DOMAIN c

Returned(c, r) == [k \in DOMAIN c \cup {"ret"} |-> IF k = "ret" THEN r ELSE c[k]]

EngineIdle == SessionInit /\ error = ""

\* get_paracetamol_treatment_threshold
InitNomogram ==
  /\ EngineIdle
  /\ calls \in {<<[fn |-> "get_paracetamol_treatment_threshold", hours |-> h]>> :
                  h \in 0..MaxHoursTenths}

CallNomogram ==
  /\ Len(calls) = 1 /\ Pending(calls[1])
  /\ calls[1].fn = "get_paracetamol_treatment_threshold"
  /\ calls' = <<Returned(calls[1], get_paracetamol_treatment_threshold(calls[1].hours))>>
  /\ UNCHANGED <<session, error>>

SpecNomogram == InitNomogram /\ [][CallNomogram]_vars

\* get_nac_dosing
InitDosing ==
  /\ EngineIdle
  /\ calls \in {<<[fn |-> "get_nac_dosing", weight |-> w]>> :
                  w \in (0..MaxDosingWeightTenths) \cup {9980, 9990, 9991, 10000, 20000}}

CallDosing ==
  /\ Len(calls) = 1 /\ Pending(calls[1])
  /\ calls[1].fn = "get_nac_dosing"
  /\ calls' = <<Returned(calls[1], get_nac_dosing(calls[1].weight))>>
  /\ UNCHANGED <<session, error>>

SpecDosing == InitDosing /\ [][CallDosing]_vars

\* make_initial_decision, on every combination of the intake fields
TriageTimes == {0, 39, 40, 69, 70, 240, 241}

TriageIntakes ==
  {[age |-> 30, weight |-> 100 * w, dose_mg |-> 750 * d, time_hours |-> t,
    is_self_harm |-> sh, is_staggered |-> st, is_dose_reliable |-> rel,
    is_symptomatic |-> sy] :
     w \in 0..MaxTriageIdx, d \in 0..MaxTriageIdx, t \in TriageTimes,
     sh \in BOOLEAN, st \in BOOLEAN, rel \in BOOLEAN, sy \in BOOLEAN}

InitTriage ==
  /\ EngineIdle
  /\ calls \in {<<[fn |-> "make_initial_decision", patient_data |-> pd]>> :
                  pd \in TriageIntakes}

CallTriage ==
  /\ Len(calls) = 1 /\ Pending(calls[1])
  /\ calls[1].fn = "make_initial_decision"
  /\ calls' = <<[fn |-> "make_initial_decision",
                 patient_data |-> WithDosePerKg(calls[1].patient_data),
                 ret |-> make_initial_decision(calls[1].patient_data)]>>
  /\ UNCHANGED <<session, error>>

SpecTriage == InitTriage /\ [][CallTriage]_vars

\* assess_nac_indication: every hour from 3.5 h to 15.5 h and 20 h, levels
\* around the detection limit, the therapeutic-excess limit and the line
IndicationTimes == (35..155) \cup {0, 200}

LineAt(t) ==
  IF t < 40 \/ t > 150 THEN 0
  ELSE LET f == t \div 10
           T == <<100, 82, 70, 60, 50, 40, 35, 30, 25, 20, 18, 15, 15>>
       IN  10 * T[f - 3] + (t % 10) * (T[f - 2] - T[f - 3])

IndicationLevels(t) ==
  {0, 50, 51, 99, 100} \cup {LineAt(t) - 1, LineAt(t), LineAt(t) + 1}

IndicationSigns ==
  {EmptyDict} \cup [has_jaundice : BOOLEAN, has_liver_tenderness : BOOLEAN]

InitIndication ==
  /\ EngineIdle
  /\ \E t \in IndicationTimes, sh \in BOOLEAN, st \in BOOLEAN,
        i \in {13, 14}, a \in {33, 34}, cs \in IndicationSigns :
       \E l \in IndicationLevels(t) :
         calls = <<[fn |-> "assess_nac_indication",
                    patient_data |-> [time_hours |-> t, is_self_harm |-> sh,
                                      is_staggered |-> st],
                    blood_results |-> [paracetamol_level |-> l, inr |-> i, alt |-> a],
                    clinical_signs |-> cs]>>

CallIndication ==
  /\ Len(calls) = 1 /\ Pending(calls[1])
  /\ calls[1].fn = "assess_nac_indication"
  /\ calls' = <<Returned(calls[1],
                  assess_nac_indication(calls[1].patient_data, calls[1].blood_results,
                                        calls[1].clinical_signs))>>
  /\ UNCHANGED <<session, error>>

SpecIndication == InitIndication /\ [][CallIndication]_vars

\* assess_nac_continuation: a re-assessment panel against an admission
\* baseline that is absent (None), empty, or a panel
ContinuationAdmissions ==
  {None, <<EmptyDict>>}
  \cup {<<[paracetamol_level |-> 0, inr |-> 13, alt |-> a]>> : a \in 0..(MaxAlt \div 2)}

InitContinuation ==
  /\ EngineIdle
  /\ calls \in
       {<<[fn |-> "assess_nac_continuation",
           reassessment_bloods |-> [paracetamol_level |-> l, inr |-> i, alt |-> a],
           admission_bloods |-> adm]>> :
          l \in {0, 99, 100}, i \in {12, 13, 14}, a \in 0..MaxAlt,
          adm \in ContinuationAdmissions}

CallContinuation ==
  /\ Len(calls) = 1 /\ Pending(calls[1])
  /\ calls[1].fn = "assess_nac_continuation"
  /\ calls' = <<Returned(calls[1],
                  assess_nac_continuation(calls[1].reassessment_bloods,
                                          calls[1].admission_bloods))>>
  /\ UNCHANGED <<session, error>>

SpecContinuation == InitContinuation /\ [][CallContinuation]_vars

(***************************************************************************)
(* Properties                                                              *)
(***************************************************************************)
LastCall(fn) == Len(calls) >= 1 /\ calls[1].fn = fn /\ ~Pending(calls[1])

AcuteSelfHarmBefore4h(pd) ==
  pd.is_self_harm /\ ~pd.is_staggered /\ pd.time_hours < 40

\* C1: in every run of the flow, assess_nac_indication is never evaluated for
\* a self-harm, non-staggered intake whose stored time_hours is below 4 h.
C1_NeverAssessedBefore4h ==
  LastCall("assess_nac_indication") => ~AcuteSelfHarmBefore4h(patient_data)

TherapeuticOutcomes ==
  {"REFER_HOSPITAL_SYMPTOMATIC", "REFER_HOSPITAL_HIGH_DOSE_EXCESS",
   "CONSIDER_BLOODS_LOW_RISK_EXCESS", "NO_ACTION_THERAPEUTIC"}

TherapeuticTriaged ==
  LastCall("make_initial_decision") /\ ~patient_data.is_self_harm
  /\ patient_data.weight > 0 /\ patient_data.dose_mg > 0

\* C2 as stated: for every valid therapeutic-excess intake the initial
\* decision is one of the four therapeutic outcomes; REVIEW_CASE is unreachable.
C2_ReviewCaseUnreachable ==
  TherapeuticTriaged => calls[1].ret.recommendation \in TherapeuticOutcomes

\* the gap of the therapeutic rules: not symptomatic, at most the licensed
\* dose, yet 75 mg/kg or more
LowDoseHighPerKg(pd) ==
  ~pd.is_symptomatic /\ pd.dose_mg <= 4000 /\ 10 * pd.dose_mg >= 75 * pd.weight

\* C2 amended: for every valid therapeutic-excess intake the initial decision
\* is REVIEW_CASE exactly when the patient is not symptomatic, dose_mg <= 4000
\* and dose per kg >= 75, and one of the four therapeutic outcomes otherwise.
C2_ReviewCaseOnlyInGap ==
  TherapeuticTriaged =>
    IF LowDoseHighPerKg(patient_data)
    THEN calls[1].ret.recommendation = "REVIEW_CASE"
    ELSE calls[1].ret.recommendation \in TherapeuticOutcomes

C2_Witness ==
  /\ TherapeuticTriaged
  /\ LowDoseHighPerKg(patient_data)
  /\ initial_decision.recommendation = "REVIEW_CASE"
  /\ step = "initial_recommendation"

\* the ordered rule list of the self-harm branch: recommendation, mandated
\* delay (None when there is none) and whether clinical signs are asked for
SelfHarmRule(pd) ==
  LET perKgBelow(n) == 10 * pd.dose_mg < n * pd.weight
  IN  IF pd.is_dose_reliable /\ perKgBelow(75)
        THEN <<"DELAY_BLOODS_SELF_HARM", <<4>>, FALSE>>
      ELSE IF pd.time_hours > 240
        THEN <<"LATE_PRESENTATION", None, TRUE>>
      ELSE IF pd.is_staggered
        THEN <<"START_NAC_DELAY_BLOODS", <<4>>, FALSE>>
      ELSE IF ~perKgBelow(150) /\ pd.time_hours >= 70
        THEN <<"START_NAC_DELAY_BLOODS", <<4>>, FALSE>>
      ELSE IF pd.time_hours < 40
        THEN <<"DELAY_BLOODS_SELF_HARM", <<4>>, FALSE>>
      ELSE <<"TAKE_BLOODS_DECIDE", None, FALSE>>

DecisionOutcome(d) ==
  << d.recommendation,
     IF "blood_delay_hours" \in DOMAIN d THEN <<d.blood_delay_hours>> ELSE None,
     Get(d, "clinical_signs_needed") >>

\* C3: for every self-harm intake with weight > 0, make_initial_decision
\* returns exactly the outcome of the ordered rule list (1, 2, 3, 4a, 4b, 4c)
\* and never REVIEW_CASE; an unreliable dose counts as significant.
C3_SelfHarmRuleList ==
  (LastCall("make_initial_decision") /\ calls[1].patient_data.is_self_harm
     /\ calls[1].patient_data.weight > 0)
  => /\ DecisionOutcome(calls[1].ret) = SelfHarmRule(calls[1].patient_data)
     /\ calls[1].ret.recommendation # "REVIEW_CASE"

C3_Witness ==
  /\ LastCall("make_initial_decision")
  /\ calls[1].patient_data.is_self_harm
  /\ ~calls[1].patient_data.is_dose_reliable
  /\ ~calls[1].patient_data.is_staggered
  /\ calls[1].patient_data.weight = 700
  /\ calls[1].patient_data.dose_mg = 750
  /\ calls[1].patient_data.time_hours = 70
  /\ calls[1].ret.recommendation = "TAKE_BLOODS_DECIDE"

\* C4: assess_nac_indication returns indicated = TRUE whenever a clinical
\* sign is present or INR > 1.3 or ALT > 33, whatever the other inputs.
C4_SignsAndLiverFunctionOverride ==
  (LastCall("assess_nac_indication")
     /\ (\/ Get(calls[1].clinical_signs, "has_jaundice")
         \/ Get(calls[1].clinical_signs, "has_liver_tenderness")
         \/ calls[1].blood_results.inr > 13
         \/ calls[1].blood_results.alt > 33))
  => calls[1].ret[1] = TRUE

C4_Witness ==
  /\ LastCall("assess_nac_indication")
  /\ calls[1].clinical_signs = EmptyDict
  /\ calls[1].blood_results.inr = 13
  /\ calls[1].blood_results.alt = 34
  /\ calls[1].blood_results.paracetamol_level = 0
  /\ AcuteSelfHarmBefore4h(calls[1].patient_data)
  /\ calls[1].ret[1] = TRUE

\* the four ingestion rules, with the treatment line of the published table
IngestionRuleHolds(pd, level) ==
  \/ pd.is_self_harm /\ pd.is_staggered /\ level > 50
  \/ pd.is_self_harm /\ ~pd.is_staggered /\ 40 <= pd.time_hours /\ pd.time_hours <= 150
       /\ level >= LineAt(pd.time_hours)
  \/ pd.is_self_harm /\ ~pd.is_staggered /\ pd.time_hours > 150 /\ level > 50
  \/ ~pd.is_self_harm /\ level >= 100

NoOverride(c) ==
  /\ ~Get(c.clinical_signs, "has_jaundice")
  /\ ~Get(c.clinical_signs, "has_liver_tenderness")
  /\ c.blood_results.inr <= 13
  /\ c.blood_results.alt <= 33

\* C5: with no clinical sign, INR <= 1.3 and ALT <= 33, assess_nac_indication
\* returns indicated = TRUE exactly when one of the four ingestion rules holds
\* (the treatment-line comparison being inclusive), and FALSE otherwise.
C5_IngestionRules ==
  (LastCall("assess_nac_indication") /\ NoOverride(calls[1]))
  => (calls[1].ret[1] <=>
        IngestionRuleHolds(calls[1].patient_data, calls[1].blood_results.paracetamol_level))

C5_Witness ==
  /\ LastCall("assess_nac_indication") /\ NoOverride(calls[1])
  /\ calls[1].patient_data.is_self_harm /\ ~calls[1].patient_data.is_staggered
  /\ calls[1].patient_data.time_hours = 45
  /\ calls[1].blood_results.paracetamol_level = 910
  /\ calls[1].ret[1] = TRUE

Range(q) == {q[i] : i \in 1..Len(q)}

ClauseParacetamol == "Paracetamol level is >= 10 mg/L"

ClauseAltDoubled == "ALT has doubled (or more) from the admission value"

ClauseAltTwiceUln == "ALT is more than twice the upper limit of normal (> 66 IU/L)"

ClauseInrRaised == "INR has increased from the admission value"

BaselinePresent(c) ==
  c.admission_bloods # None /\ DOMAIN c.admission_bloods[1] # {}

\* C6: with an admission baseline, assess_nac_continuation returns
\* continue = TRUE exactly when at least one of the four checks holds, and the
\* clauses listed in the reason are exactly the checks that are true; an INR
\* equal to the admission INR does not trigger continuation.
C6_ContinuationChecks ==
  (LastCall("assess_nac_continuation") /\ BaselinePresent(calls[1]))
  => LET re == calls[1].reassessment_bloods
         adm == calls[1].admission_bloods[1]
         ret == calls[1].ret
         checks == (IF re.paracetamol_level >= 100 THEN {ClauseParacetamol} ELSE {})
                   \cup (IF re.alt >= 2 * adm.alt THEN {ClauseAltDoubled} ELSE {})
                   \cup (IF re.alt > 66 THEN {ClauseAltTwiceUln} ELSE {})
                   \cup (IF re.inr > adm.inr THEN {ClauseInrRaised} ELSE {})
     IN  /\ ret[1] <=> (checks # {})
         /\ Range(ret[3]) = checks
         /\ Len(ret[3]) = Cardinality(checks)

C6_Witness ==
  /\ LastCall("assess_nac_continuation") /\ BaselinePresent(calls[1])
  /\ calls[1].reassessment_bloods.inr = calls[1].admission_bloods[1].inr
  /\ calls[1].reassessment_bloods.paracetamol_level = 99
  /\ calls[1].reassessment_bloods.alt = 66
  /\ calls[1].admission_bloods[1].alt = 34
  /\ calls[1].ret[1] = FALSE

\* C7: get_paracetamol_treatment_threshold(hours) is None exactly when
\* hours < 4 or hours > 15; on [4, 15] it is the table value at whole hours
\* and the linear interpolation between the neighbouring whole hours, to one
\* decimal place, at fractional hours (steps of 0.1 h).
C7_TreatmentLine ==
  LastCall("get_paracetamol_treatment_threshold")
  => LET h == calls[1].hours
         r == calls[1].ret
         table == <<100, 82, 70, 60, 50, 40, 35, 30, 25, 20, 18, 15>>
     IN  /\ (r = None) <=> (h < 40 \/ h > 150)
         /\ (40 <= h /\ h <= 150 /\ h % 10 = 0) => r = <<10 * table[(h \div 10) - 3]>>
         /\ (40 <= h /\ h <= 150 /\ h % 10 # 0)
              => LET f == h \div 10
                 IN  r = <<10 * table[f - 3] + (h - 10 * f) * (table[f - 2] - table[f - 3])>>
         /\ h = 45 => r = <<910>>

C7_Witness ==
  /\ LastCall("get_paracetamol_treatment_threshold")
  /\ calls[1].hours = 147
  /\ calls[1].ret = <<159>>

InBand(w, i) == nac_dosing[i].min_weight * 10 <= w /\ w <= nac_dosing[i].max_weight * 10

\* C8: get_nac_dosing always returns a protocol: the bands are pairwise
\* disjoint, a weight in a band's closed interval gets that band (70 kg gets
\* dose1 7600 mg at 119 ml/hr), and a weight in no band, below 40 kg or above
\* the last band, gets the '>109 kg' protocol (dose1 11000 mg).
C8_DosingLookup ==
  /\ \A i, j \in 1..Len(nac_dosing) :
       i < j => nac_dosing[i].max_weight < nac_dosing[j].min_weight
  /\ LastCall("get_nac_dosing")
     => LET w == calls[1].weight
            r == calls[1].ret
        IN  /\ \A i \in 1..Len(nac_dosing) : InBand(w, i) => r = nac_dosing[i].dosing
            /\ (\A i \in 1..Len(nac_dosing) : ~InBand(w, i))
                 => r.weight_range = ">109 kg" /\ r.dose1_mg = 11000
            /\ w = 700 => r.dose1_mg = 7600 /\ r.rate1_mlhr = 119
            /\ (w < 400 \/ w > 9990) => r.dose1_mg = 11000
            /\ DOMAIN r = {"weight_range", "dose1_mg", "vol1_ml", "rate1_mlhr",
                           "dose2_mg", "vol2_ml", "rate2_mlhr"}

C8_Witness ==
  /\ LastCall("get_nac_dosing")
  /\ calls[1].weight = 100
  /\ calls[1].ret.weight_range = ">109 kg"
  /\ calls[1].ret.dose1_mg = 11000

SessionCleared ==
  /\ step = "patient_data"
  /\ patient_data = EmptyDict /\ initial_decision = EmptyDict
  /\ admission_bloods = None /\ clinical_signs = EmptyDict
  /\ reassessment_bloods = None

BloodsNeeded == Get(initial_decision, "blood_tests_needed")

\* C9: the flow moves from the initial-recommendation step to the
\* blood-results step if and only if the stored decision has
\* blood_tests_needed = TRUE; when it is false or absent the only enabled
\* transition is Restart.
C9_BloodsIffNeeded ==
  /\ [][(step = "initial_recommendation" /\ step' = "blood_results") => BloodsNeeded]_vars
  /\ [][(step = "initial_recommendation" /\ ~BloodsNeeded) => SessionCleared']_vars
  /\ []((step = "initial_recommendation" /\ BloodsNeeded) => ENABLED ProceedToBloods)
  /\ []((step = "initial_recommendation" /\ ~BloodsNeeded)
          => ~ENABLED ProceedToBloods /\ ENABLED reset_app)

C9_Witness ==
  /\ step = "initial_recommendation"
  /\ initial_decision.recommendation = "NO_ACTION_THERAPEUTIC"
  /\ ~BloodsNeeded

NacIndicated ==
  assess_nac_indication(patient_data, admission_bloods[1], clinical_signs)[1]

\* C10: the flow moves from final_recommendation to reassessment if and only
\* if assess_nac_indication on the stored intake, admission bloods and
\* clinical signs returned TRUE; the reassessment and complete steps are
\* reached only on runs where NAC was indicated.
C10_ReassessmentIffIndicated ==
  /\ [][(step = "final_recommendation" /\ step' = "reassessment")
          => (calls[1].fn = "assess_nac_indication" /\ calls[1].ret[1] = TRUE)]_vars
  /\ [][(step = "final_recommendation" /\ calls[1].ret[1] = FALSE) => SessionCleared']_vars
  /\ [](step = "final_recommendation"
          => /\ calls[1].fn = "assess_nac_indication"
             /\ calls[1].ret[1] = NacIndicated
             /\ calls[1].ret[1] <=> ENABLED ProceedToReassessment)
  /\ [](step \in {"reassessment", "complete"} => NacIndicated)

C10_Witness ==
  /\ step = "complete"
  /\ NacIndicated
  /\ ~patient_data.is_self_harm
  /\ admission_bloods[1].paracetamol_level = 100

\* C11 as stated: Restart is enabled in every flow state and leaves the
\* step at intake with every accumulated fact cleared.
C11_RestartEnabledEverywhere ==
  /\ [](ENABLED reset_app)
  /\ [][LastCall("reset_app")' => SessionCleared']_vars

\* C11 amended: Restart is enabled in every flow state past the intake step
\* (the intake page has no Start Over button); after it the step is intake
\* and the intake, the initial decision, both blood panels and the clinical
\* signs are cleared; and the session is clear whenever the step is intake,
\* so no fact of an earlier assessment reaches a decision of the next one.
C11_RestartClearsPastIntake ==
  /\ [](step # "patient_data" => ENABLED reset_app)
  /\ [](step = "patient_data" => SessionCleared /\ ~ENABLED reset_app)
  /\ [][LastCall("reset_app")' => (step # "patient_data" /\ SessionCleared' /\ error' = "")]_vars

C11_Witness ==
  /\ LastCall("reset_app")
  /\ SessionCleared
  /\ error = ""

StepOrder ==
  <<"patient_data", "initial_recommendation", "blood_results",
    "final_recommendation", "reassessment", "complete">>

StepIndex(s) == CHOOSE i \in 1..Len(StepOrder) : StepOrder[i] = s

\* C12: apart from Restart, every transition of the flow moves the step to
\* its immediate successor in the order patient_data, initial_recommendation,
\* blood_results, final_recommendation, reassessment, complete: no step is
\* skipped or revisited, and every return to an earlier step is a Restart.
C12_ForwardOnly ==
  /\ [][(step' # step /\ ~LastCall("reset_app")')
          => StepIndex(step') = StepIndex(step) + 1]_vars
  /\ [][StepIndex(step') < StepIndex(step)
          => (LastCall("reset_app")' /\ step' = "patient_data")]_vars
  /\ [](step \in Range(StepOrder))

C12_Witness ==
  /\ step = "complete"
  /\ LastCall("assess_nac_continuation")
  /\ calls[1].ret[1] = TRUE

ValidIntake(pd) ==
  /\ pd.age >= 18 /\ pd.weight > 0 /\ pd.dose_mg > 0
  /\ pd.dose_per_kg.num * pd.weight = 10 * pd.dose_mg * pd.dose_per_kg.den
  /\ pd.dose_per_kg.num > 0

\* C13: an intake with age < 18, weight <= 0 or dose_mg <= 0 is rejected
\* before any rule runs (the step stays at intake, nothing is stored, no
\* engine call is made); hence past the intake step the stored intake has
\* age >= 18, weight > 0, dose_mg > 0 and dose_per_kg = dose_mg / weight,
\* never the default 0 of a non-positive weight.
C13_InvalidIntakeRejected ==
  /\ [][(step = "patient_data" /\ error' # "")
          => (calls' = <<>> /\ UNCHANGED session)]_vars
  /\ [][(step = "patient_data" /\ step' # "patient_data")
          => (ValidIntake(patient_data') /\ error' = ""
              /\ LastCall("make_initial_decision")')]_vars
  /\ [](step = "patient_data" => patient_data = EmptyDict /\ initial_decision = EmptyDict)
  /\ [](step # "patient_data" => ValidIntake(patient_data) /\ error = "")

C13_Witness ==
  /\ step = "patient_data"
  /\ error = "Weight and Dose must be positive values."
  /\ patient_data = EmptyDict /\ initial_decision = EmptyDict
  /\ calls = <<>>

MissingBaselineError == "Error: Admission blood results not available for comparison."

\* C14: called with an absent admission baseline, assess_nac_continuation
\* returns continue = FALSE with the missing-admission-baseline error reason,
\* for every re-assessment panel, and lists none of the four checks.
C14_MissingBaseline ==
  (LastCall("assess_nac_continuation") /\ ~BaselinePresent(calls[1]))
  => /\ calls[1].ret[1] = FALSE
     /\ calls[1].ret[2] = MissingBaselineError
     /\ calls[1].ret[3] = <<>>

C14_Witness ==
  /\ LastCall("assess_nac_continuation")
  /\ calls[1].admission_bloods = None
  /\ calls[1].reassessment_bloods.paracetamol_level = 100
  /\ calls[1].reassessment_bloods.alt = 70
  /\ calls[1].reassessment_bloods.inr = 14
  /\ calls[1].ret = <<FALSE, MissingBaselineError, <<>> >>

\* C15 as stated: every Decision make_initial_decision returns for a valid
\* intake has blood_tests_needed = TRUE.
C15_BloodsAlwaysNeeded ==
  LastCall("make_initial_decision") => BloodsNeeded

NoBloodsOutcomes == {"NO_ACTION_THERAPEUTIC", "REVIEW_CASE"}

\* C15 amended: a Decision returned for a valid intake has
\* blood_tests_needed = TRUE unless it is NO_ACTION_THERAPEUTIC (FALSE) or
\* REVIEW_CASE (absent), both of the therapeutic-excess branch; every
\* self-harm decision has it TRUE, and a flow can proceed to blood collection
\* exactly when its decision is none of those two.
C15_BloodsNeededExceptNoAction ==
  /\ [](step # "patient_data"
          => /\ BloodsNeeded <=> initial_decision.recommendation \notin NoBloodsOutcomes
             /\ patient_data.is_self_harm => BloodsNeeded
             /\ initial_decision.recommendation = "NO_ACTION_THERAPEUTIC"
                  => initial_decision.blood_tests_needed = FALSE
             /\ initial_decision.recommendation = "REVIEW_CASE"
                  => "blood_tests_needed" \notin DOMAIN initial_decision)
  /\ [](step = "initial_recommendation"
          => (ENABLED ProceedToBloods
                <=> initial_decision.recommendation \notin NoBloodsOutcomes))

C15_Witness ==
  /\ LastCall("make_initial_decision")
  /\ step = "initial_recommendation"
  /\ ~patient_data.is_self_harm
  /\ patient_data.dose_mg = 2250 /\ patient_data.weight = 600
  /\ calls[1].ret.recommendation = "NO_ACTION_THERAPEUTIC"
  /\ calls[1].ret.blood_tests_needed = FALSE

\* C17: once stored, the intake record, the initial decision and the
\* admission panel are left unchanged by every later transition except
\* Restart; entering admission bloods alters neither the intake nor the
\* initial decision, entering re-assessment bloods alters none of the three.
C17_StoredFactsFrozen ==
  /\ [][(step # "patient_data" /\ ~LastCall("reset_app")')
          => (patient_data' = patient_data /\ initial_decision' = initial_decision)]_vars
  /\ [][(admission_bloods # None /\ ~LastCall("reset_app")')
          => admission_bloods' = admission_bloods]_vars
  /\ [][step = "blood_results" /\ step' = "final_recommendation"
          => (patient_data' = patient_data /\ initial_decision' = initial_decision
              /\ admission_bloods = None /\ admission_bloods' # None)]_vars
  /\ [][step = "reassessment" /\ step' = "complete"
          => UNCHANGED <<patient_data, initial_decision, admission_bloods>>]_vars

C17_Witness ==
  /\ step = "complete"
  /\ LastCall("assess_nac_continuation")
  /\ calls[1].reassessment_bloods.paracetamol_level # admission_bloods[1].paracetamol_level
  /\ calls[1].reassessment_bloods.alt # admission_bloods[1].alt
  /\ "dose_per_kg" \in DOMAIN patient_data

\* C18: whenever the step is final_recommendation, reassessment or complete
\* the admission panel is present; so in the flow assess_nac_continuation is
\* always called with an admission baseline and never returns its
\* missing-baseline error.
C18_BaselineAlwaysPresent ==
  /\ step \in {"final_recommendation", "reassessment", "complete"}
       => (admission_bloods # None /\ DOMAIN admission_bloods[1] # {})
  /\ LastCall("assess_nac_continuation")
       => (step = "complete" /\ calls[1].ret[2] # MissingBaselineError)

C18_Witness ==
  /\ step = "complete"
  /\ LastCall("assess_nac_continuation")
  /\ admission_bloods # None
  /\ calls[1].ret[1] = FALSE
  /\ calls[1].ret[2] # MissingBaselineError

SignsReason == "NAC is indicated due to clinical signs of liver injury (jaundice or tenderness)."

LateSignificantSelfHarm(pd) ==
  /\ pd.is_self_harm /\ pd.time_hours > 240
  /\ (~pd.is_dose_reliable \/ 10 * pd.dose_mg >= 75 * pd.weight)

\* C19: in every reachable state the stored clinical signs are non-empty
\* only if the stored initial decision is LATE_PRESENTATION; so the
\* clinical-signs override fires only for a self-harm intake with a
\* significant dose and time_hours > 24, and no signs survive a Restart.
C19_SignsOnlyOnLatePresentation ==
  /\ clinical_signs # EmptyDict
       => /\ step \notin {"patient_data", "initial_recommendation"}
          /\ initial_decision.recommendation = "LATE_PRESENTATION"
          /\ LateSignificantSelfHarm(patient_data)
  /\ (LastCall("assess_nac_indication") /\ calls[1].ret[2] = SignsReason)
       => /\ initial_decision.recommendation = "LATE_PRESENTATION"
          /\ LateSignificantSelfHarm(patient_data)
  /\ LastCall("reset_app") => clinical_signs = EmptyDict

C19_Witness ==
  /\ LastCall("assess_nac_indication")
  /\ calls[1].ret[2] = SignsReason
  /\ clinical_signs.has_jaundice /\ ~clinical_signs.has_liver_tenderness
  /\ initial_decision.recommendation = "LATE_PRESENTATION"

\* C20: for every weight in 0.1 kg steps, get_nac_dosing returns the
\* '>109 kg' protocol only when the weight is below 40 kg or above 109 kg;
\* every weight from 40 to 109 kg, fractional ones included, gets one of the
\* seven closed bands, so from 40 kg upward the phase-1 dose is never above
\* the one of the next heavier weight.
C20_FallbackOnlyOutside40To109 ==
  LastCall("get_nac_dosing")
  => /\ calls[1].ret.weight_range = ">109 kg"
          => (calls[1].weight < 400 \/ calls[1].weight > 1090)
     /\ (400 <= calls[1].weight /\ calls[1].weight <= 1090)
          => calls[1].ret.weight_range \in
               {nac_dosing[i].dosing.weight_range : i \in 1..(Len(nac_dosing) - 1)}
     /\ 400 <= calls[1].weight
          => calls[1].ret.dose1_mg <= get_nac_dosing(calls[1].weight + 1).dose1_mg

\* C21: assess_nac_continuation does not list the 'ALT has doubled' clause,
\* and does not return continue = TRUE on its account, when the re-assessment
\* ALT is not higher than the admission ALT; with both ALT 0, paracetamol
\* below 10 mg/L and INR not raised the result is continue = FALSE.
C21_NoDoublingWithoutRise ==
  (LastCall("assess_nac_continuation") /\ BaselinePresent(calls[1])
     /\ calls[1].reassessment_bloods.alt <= calls[1].admission_bloods[1].alt)
  => LET re == calls[1].reassessment_bloods
         adm == calls[1].admission_bloods[1]
         ret == calls[1].ret
     IN  /\ ClauseAltDoubled \notin Range(ret[3])
         /\ ret[1] => (re.paracetamol_level >= 100 \/ re.alt > 66 \/ re.inr > adm.inr)
         /\ (re.alt = 0 /\ adm.alt = 0 /\ re.paracetamol_level < 100 /\ re.inr <= adm.inr)
              => ret[1] = FALSE

====
